---- MODULE Spec2Model ----
(***************************************************************************)
(* The constellation engine of src/App.tsx (ConstellationGraph): the held *)
(* node/link list (physicsRef), its reconciliation against a new graph    *)
(* snapshot, the frame loop (renderLoop) with its physics phases and its  *)
(* render, the resize listener and the teardown.                          *)
(*                                                                         *)
(* Numbers.  The code computes in IEEE doubles.  Here every quantity is a *)
(* fixed-point integer counting 1/Scale of a pixel; every statement of    *)
(* the code is evaluated exactly and its result rounded toward zero.      *)
(* NaN stands for every non-finite double (NaN, +Infinity, -Infinity):    *)
(* once a field of a node is non-finite it stays so in the code, and so   *)
(* in the model.  Rounding of double additions is not modelled.           *)
(***************************************************************************)
EXTENDS Integers, Sequences, FiniteSets, TLC

\* -------------------------------------------------------------- bounds
\* Events a behaviour dispatches after the mount: graphData changes, window
\* size changes and frame callbacks.
MaxEvents == 3
\* Frames are followed while every node lies within MaxCoord grid units
\* (1/Scale pixel) of the origin on both axes.
MaxCoord == 16000
\* Steps followed of the spring acting alone on two nodes.
MaxSteps == 48

\* ------------------------------------------------------ program constants
REPULSION == 2000
SPRING_LENGTH == 120
\* SPRING_K = 0.02 = SPRING_K_NUM / 100
SPRING_K_NUM == 2
\* DAMPING = 0.85 = DAMPING_NUM / 100
DAMPING_NUM == 85
\* CENTER_GRAVITY = 0.0003 = CENTER_GRAVITY_NUM / 10000
CENTER_GRAVITY_NUM == 3
\* let buffer = 20
PlanetBuffer == 20
\* isMobile = w < 768
MobileBreakpoint == 768

\* ------------------------------------------------------------ arithmetic
\* Units per pixel of the fixed-point grid.
Scale == 4 * 4
\* The denominators of Math.random()'s modelled values.
RandDen == 2 * 2
\* Every non-finite double.
NaN == 0 - (2 ^ 30)

IsFinite(a) == a # NaN

Abs(a) == IF a < 0 THEN 0 - a ELSE a

\* a / b over the integers, rounded toward zero (b > 0).
TDiv(a, b) == IF a >= 0 THEN a \div b ELSE 0 - ((0 - a) \div b)

RECURSIVE SqrtIter(_, _, _)
SqrtIter(n, lo, hi) ==
    IF lo >= hi THEN lo
    ELSE LET mid == (lo + hi + 1) \div 2
         IN IF mid * mid <= n THEN SqrtIter(n, mid, hi)
                              ELSE SqrtIter(n, lo, mid - 1)

\* Math.sqrt on a square of grid units: floor of the root, in grid units.
Sqrt(n) == IF n = NaN THEN NaN ELSE SqrtIter(n, 0, 46340)

Add(a, b) == IF a = NaN \/ b = NaN THEN NaN ELSE a + b

Sub(a, b) == IF a = NaN \/ b = NaN THEN NaN ELSE a - b

\* a * b of two grid values, in squared grid units (exact).
Mul(a, b) == IF a = NaN \/ b = NaN THEN NaN ELSE a * b

\* a * (num / den) for a literal num/den of the code.
Frac(a, num, den) == IF a = NaN THEN NaN ELSE TDiv(a * num, den)

\* (a / d) * f for grid values a, d, f: the code's (dx / dist) * force.
\* A zero divisor gives 0/0 = NaN or x/0 = Infinity, both non-finite.
Ratio(a, d, f) ==
    IF a = NaN \/ d = NaN \/ f = NaN \/ d = 0 THEN NaN
    ELSE TDiv(a * f, d)

\* a < b of the code: false when either side is NaN.
Lt(a, b) == a # NaN /\ b # NaN /\ a < b

Min(a, b) == IF a < b THEN a ELSE b

\* ----------------------------------------------------------------- state
VARIABLES
    ctl,          \* the frame loop effect: "idle" (not mounted), "running", "cancelled";
                  \* "starting" while it runs without a 2D context, "failed" once it threw
    pc,           \* position inside renderLoop: "idle" when the call stack is empty
    nodes,        \* physicsRef.current.nodes
    links,        \* physicsRef.current.links
    graphData,    \* the graphData prop the reconcile effect last ran with
    winW, winH,   \* window.innerWidth, window.innerHeight (pixels)
    canvasW, canvasH, \* canvas.width, canvas.height (pixels)
    listener,     \* whether resize is attached to the window
    pending,      \* handles of the frame callbacks requestAnimationFrame holds
    animationRef, \* animationRef.current (0 stands for null)
    frame,        \* what the last RENDER section drew
    calls,        \* calls of requestAnimationFrame so far (the next handle)
    op,           \* the handler that produced this state
    spawned,      \* positions in nodes the last reconcile created
    events,       \* events dispatched since the mount
    agents, forms, outputs, \* the object stores of LocalDB, as sets of records
    tasks,        \* the App's asynchronous handlers: where each one is suspended
    views,        \* per handler, the store contents since its refreshGraph began
    appState,     \* App's appState: "booting", "onboarding", "active"
    appGraph,     \* App's graphData state (the value last given to setGraphData)
    speeds,       \* the squared speed of the first node after each spring step
    gemini        \* the call of callGemini under way: its locals and what it did

\* the state of ConstellationGraph, but for op and events
engineVars == <<ctl, pc, nodes, links, graphData, winW, winH, canvasW, canvasH,
                listener, pending, animationRef, frame, calls, spawned>>

\* the state of the App shell and of LocalDB
shellVars == <<agents, forms, outputs, tasks, views, appState, appGraph>>

vars == <<ctl, pc, nodes, links, graphData, winW, winH, canvasW, canvasH,
          listener, pending, animationRef, frame, calls, op, spawned,
          events, shellVars, speeds, gemini>>

\* ---------------------------------------------------------------- inputs
\* window sizes: a collapsed window, a phone and a desktop
Viewports == { <<0, 0>>, <<244, 300>>, <<800, 600>> }

Node(i, t) == [id |-> i, type |-> t]

Link(s, t) == [source |-> s, target |-> t]

\* graph snapshots the data layer supplies (refreshGraph's setGraphData)
Snapshots ==
    { [nodes |-> << >>, links |-> << >>],
      [nodes |-> << Node("a1", "agent") >>, links |-> << >>],
      [nodes |-> << Node("a1", "agent"), Node("f1", "form") >>,
       links |-> << Link("a1", "f1") >>],
      [nodes |-> << Node("f1", "form") >>, links |-> << Link("a1", "f1") >>] }

\* the values Math.random() takes, as numerators over RandDen: 1/4 and 3/4
Rand == {1, 3}

\* ------------------------------------------------------------- reconcile
\* nodes.find(n => n.id === id): the position of the first match, 0 if none
RECURSIVE FindFrom(_, _, _)
FindFrom(ns, id, k) ==
    IF k > Len(ns) THEN 0
    ELSE IF ns[k].id = id THEN k
    ELSE FindFrom(ns, id, k + 1)

Find(ns, id) == FindFrom(ns, id, 1)

\* if (!source || !target) return;  (false when an end does not resolve)
Resolved(ns, link) == Find(ns, link.source) # 0 /\ Find(ns, link.target) # 0

\* Math.random() * width
SpawnX(r, width) == Frac(width * Scale, r, RandDen)

\* SpawnY without the factor 0.5
SpawnYFullHeight(r, height) == Frac(height * Scale, r, RandDen)

\* Math.random() * height * 0.5
SpawnY(r, height) == Frac(Frac(height * Scale, r, RandDen), 1, 2)

\* NewNode with the velocity of a held node reset instead of copied
NewNodeResetVelocity(old, n, r, width, height) ==
    [id |-> n.id, type |-> n.type,
     x |-> IF Find(old, n.id) # 0 THEN old[Find(old, n.id)].x ELSE SpawnX(r[1], width),
     y |-> IF Find(old, n.id) # 0 THEN old[Find(old, n.id)].y ELSE SpawnY(r[2], height),
     vx |-> 0, vy |-> 0]

\* graphData.nodes.map(n => existing ? {...n, x, y, vx, vy} : {...n, random})
\* rnd[k] = <<rx, ry>> are the two Math.random() draws made for node k.
NewNode(old, n, r, width, height) ==
    LET e == Find(old, n.id)
    IN IF e # 0
       THEN [id |-> n.id, type |-> n.type,
             x |-> old[e].x, y |-> old[e].y, vx |-> old[e].vx, vy |-> old[e].vy]
       ELSE [id |-> n.id, type |-> n.type,
             x |-> SpawnX(r[1], width), y |-> SpawnY(r[2], height),
             vx |-> 0, vy |-> 0]

NewNodes(old, snap, rnd, width, height) ==
    [k \in 1 .. Len(snap.nodes) |->
        NewNode(old, snap.nodes[k], rnd[k], width, height)]

\* NewLinks keeping only the links between nodes of the snapshot
NewLinksResolvedOnly(snap) ==
    SelectSeq(snap.links, LAMBDA l : Resolved(snap.nodes, l))

\* physicsRef.current = { nodes: newNodes, links: graphData.links }
NewLinks(snap) == snap.links

NewSpawned(old, snap) ==
    { k \in 1 .. Len(snap.nodes) : Find(old, snap.nodes[k].id) = 0 }

\* ---------------------------------------------------------- obstacle model
\* getPlanetConfig(w, h), w and h in pixels, the result in grid units
getPlanetConfig(w, h) ==
    LET isMobile == w < MobileBreakpoint
    IN [x |-> IF isMobile THEN Frac(0 - w * Scale, 2, 10)
                          ELSE Frac(0 - w * Scale, 1, 10),
        y |-> IF isMobile THEN Frac(h * Scale, 8, 10)
                          ELSE Frac(h * Scale, 11, 10),
        radius |-> IF isMobile THEN Frac(h * Scale, 6, 10)
                               ELSE Frac(Min(w, h) * Scale, 8, 10)]

\* --------------------------------------------------------------- physics
\* 1. Repulsion: the body of the inner loop for the pair (i, j).
\* distSq is kept exact, in squared grid units, so that it is 0 exactly
\* when dx and dy are both 0, as in the code.
RepulsionForce(ns, i, j) ==
    LET dx == Sub(ns[i].x, ns[j].x)
        dy == Sub(ns[i].y, ns[j].y)
        raw == Add(Mul(dx, dx), Mul(dy, dy))
        distSq == IF raw = 0 THEN Scale * Scale ELSE raw
        dist == Sqrt(distSq)
        force == IF distSq = NaN THEN NaN
                 ELSE TDiv(REPULSION * Scale * Scale * Scale, distSq)
    IN [fx |-> Ratio(dx, dist, force), fy |-> Ratio(dy, dist, force)]

\* RepelPair that adds fy to both nodes
RepelPairSameSign(ns, i, j) ==
    [ns EXCEPT ![i].vx = Add(@, RepulsionForce(ns, i, j).fx),
               ![i].vy = Add(@, RepulsionForce(ns, i, j).fy),
               ![j].vx = Sub(@, RepulsionForce(ns, i, j).fx),
               ![j].vy = Add(@, RepulsionForce(ns, i, j).fy)]

\* nodes[i].vx += fx; nodes[i].vy += fy; nodes[j].vx -= fx; nodes[j].vy -= fy
RepelPair(ns, i, j) ==
    LET f == RepulsionForce(ns, i, j)
        a == [ns EXCEPT ![i].vx = Add(@, f.fx), ![i].vy = Add(@, f.fy)]
    IN [a EXCEPT ![j].vx = Sub(@, f.fx), ![j].vy = Sub(@, f.fy)]

\* for (i ...) for (j = i + 1 ...): the loops from the pair (i, j) on
RECURSIVE RepelFrom(_, _, _)
RepelFrom(ns, i, j) ==
    IF i > Len(ns) THEN ns
    ELSE IF j > Len(ns) THEN RepelFrom(ns, i + 1, i + 2)
    ELSE RepelFrom(RepelPair(ns, i, j), i, j + 1)

Repulsion(ns) == RepelFrom(ns, 1, 2)

\* AttractLink's spring with the source position (sx, sy) and the sign of
\* the force as parameters, for the two variants below
Spring(ns, s, t, sx, sy, sign) ==
    LET dx == Sub(ns[t].x, sx)
        dy == Sub(ns[t].y, sy)
        root == Sqrt(Add(Mul(dx, dx), Mul(dy, dy)))
        dist == IF root = 0 \/ root = NaN THEN Scale ELSE root
        force == sign * Frac(dist - SPRING_LENGTH * Scale, SPRING_K_NUM, 100)
        fx == Ratio(dx, dist, force)
        fy == Ratio(dy, dist, force)
        a == IF s = 0 THEN ns
             ELSE [ns EXCEPT ![s].vx = Add(@, fx), ![s].vy = Add(@, fy)]
    IN [a EXCEPT ![t].vx = Sub(@, fx), ![t].vy = Sub(@, fy)]

\* AttractLink that takes a missing source to be at the origin
AttractLinkDefaultSource(ns, link) ==
    IF Find(ns, link.target) = 0 THEN ns
    ELSE IF Find(ns, link.source) = 0
         THEN Spring(ns, 0, Find(ns, link.target), 0, 0, 1)
         ELSE Spring(ns, Find(ns, link.source), Find(ns, link.target),
                     ns[Find(ns, link.source)].x, ns[Find(ns, link.source)].y, 1)

\* AttractLink with the sign of the spring force reversed
AttractLinkRepel(ns, link) ==
    IF ~Resolved(ns, link) THEN ns
    ELSE Spring(ns, Find(ns, link.source), Find(ns, link.target),
                ns[Find(ns, link.source)].x, ns[Find(ns, link.source)].y, 0 - 1)

\* 2. Attraction: the body of links.forEach for one link
AttractLink(ns, link) ==
    IF ~Resolved(ns, link) THEN ns
    ELSE LET s == Find(ns, link.source)
             t == Find(ns, link.target)
             dx == Sub(ns[t].x, ns[s].x)
             dy == Sub(ns[t].y, ns[s].y)
             root == Sqrt(Add(Mul(dx, dx), Mul(dy, dy)))
             \* Math.sqrt(...) || 1: 0 and NaN are falsy
             dist == IF root = 0 \/ root = NaN THEN Scale ELSE root
             force == Frac(dist - SPRING_LENGTH * Scale, SPRING_K_NUM, 100)
             fx == Ratio(dx, dist, force)
             fy == Ratio(dy, dist, force)
             a == [ns EXCEPT ![s].vx = Add(@, fx), ![s].vy = Add(@, fy)]
         IN [a EXCEPT ![t].vx = Sub(@, fx), ![t].vy = Sub(@, fy)]

RECURSIVE AttractFrom(_, _, _)
AttractFrom(ns, ls, k) ==
    IF k > Len(ls) THEN ns
    ELSE AttractFrom(AttractLink(ns, ls[k]), ls, k + 1)

Attraction(ns, ls) == AttractFrom(ns, ls, 1)

\* Planet Collision boundary: the velocity after the push, for one axis,
\* d the node's offset from the planet centre on that axis
PlanetPush(v, d, distPlanet, planet) ==
    LET reach == planet.radius + PlanetBuffer * Scale
    IN IF Lt(distPlanet, reach)
       THEN Add(v, Ratio(d, distPlanet, Frac(reach - distPlanet, 1, 10)))
       ELSE v

\* 3. Gravity & Planet Collision for one node, before the damping: the
\* node with its velocity after center gravity and the planet push
PushNode(n, width, height, planet) ==
    LET gx == Add(n.vx, Frac(Sub(Frac(width * Scale, 7, 10), n.x),
                             CENTER_GRAVITY_NUM, 10000))
        gy == Add(n.vy, Frac(Sub(Frac(height * Scale, 3, 10), n.y),
                             CENTER_GRAVITY_NUM, 10000))
        dxPlanet == Sub(n.x, planet.x)
        dyPlanet == Sub(n.y, planet.y)
        distPlanet == Sqrt(Add(Mul(dxPlanet, dxPlanet), Mul(dyPlanet, dyPlanet)))
    IN [n EXCEPT !.vx = PlanetPush(gx, dxPlanet, distPlanet, planet),
                 !.vy = PlanetPush(gy, dyPlanet, distPlanet, planet)]

\* DampNode without the damping (DAMPING = 1)
DampNodeUndamped(n) ==
    [n EXCEPT !.x = Add(n.x, n.vx), !.y = Add(n.y, n.vy)]

\* n.vx *= DAMPING; n.vy *= DAMPING; n.x += n.vx; n.y += n.vy
DampNode(n) ==
    LET vx == Frac(n.vx, DAMPING_NUM, 100)
        vy == Frac(n.vy, DAMPING_NUM, 100)
    IN [n EXCEPT !.vx = vx, !.vy = vy, !.x = Add(n.x, vx), !.y = Add(n.y, vy)]

\* MoveNode that damps and moves the node twice
MoveNodeTwice(n, width, height, planet) ==
    DampNode(DampNode(PushNode(n, width, height, planet)))

\* 3. Gravity & Planet Collision, damping and integration, for one node;
\* width and height in pixels
MoveNode(n, width, height, planet) ==
    LET gx == Add(n.vx, Frac(Sub(Frac(width * Scale, 7, 10), n.x),
                             CENTER_GRAVITY_NUM, 10000))
        gy == Add(n.vy, Frac(Sub(Frac(height * Scale, 3, 10), n.y),
                             CENTER_GRAVITY_NUM, 10000))
        dxPlanet == Sub(n.x, planet.x)
        dyPlanet == Sub(n.y, planet.y)
        distPlanet == Sqrt(Add(Mul(dxPlanet, dxPlanet), Mul(dyPlanet, dyPlanet)))
        vx == Frac(PlanetPush(gx, dxPlanet, distPlanet, planet), DAMPING_NUM, 100)
        vy == Frac(PlanetPush(gy, dyPlanet, distPlanet, planet), DAMPING_NUM, 100)
    IN [n EXCEPT !.vx = vx, !.vy = vy, !.x = Add(n.x, vx), !.y = Add(n.y, vy)]

Integrate(ns, width, height) ==
    LET planet == getPlanetConfig(width, height)
    IN [k \in 1 .. Len(ns) |-> MoveNode(ns[k], width, height, planet)]

\* ---------------------------------------------------------------- render
\* Draw Edges: one line per link whose two ends resolve, dashed when the
\* target is an output
DrawEdges(ns, ls) ==
    LET shown == SelectSeq(ls, LAMBDA l : Resolved(ns, l))
    IN [k \in 1 .. Len(shown) |->
          [source |-> shown[k].source, target |-> shown[k].target,
           dashed |-> ns[Find(ns, shown[k].target)].type = "output"]]

\* DrawNodes at the positions the nodes had before the integration
DrawNodesBeforeMove(ns) ==
    [k \in 1 .. Len(ns) |->
        [id |-> ns[k].id, x |-> Sub(ns[k].x, ns[k].vx), y |-> Sub(ns[k].y, ns[k].vy)]]

\* Draw Nodes (Stars): one arc per node, at its current position
DrawNodes(ns) == [k \in 1 .. Len(ns) |-> [id |-> ns[k].id, x |-> ns[k].x, y |-> ns[k].y]]

Render(ns, ls) == [edges |-> DrawEdges(ns, ls), stars |-> DrawNodes(ns)]

\* ------------------------------------------------- LocalDB and refreshGraph
\* a key that a record does not carry (null or undefined)
Null == "null"

\* the keys of the stores in the order of IndexedDB (ascending)
KeyOrder == << "a1", "f1", "f2", "o1" >>

AgentRecord(id) == [id |-> id]

FormRecord(id, agentId) == [id |-> id, agentId |-> agentId]

OutputRecord(id, formId) == [id |-> id, formId |-> formId]

\* store.put(data) on a store with keyPath 'id': a record with the same id
\* is replaced
put(store, data) == { r \in store : r.id # data.id } \cup {data}

\* store.getAll(): the records in ascending order of their keys
getAll(store) ==
    LET keys == SelectSeq(KeyOrder, LAMBDA i : \E r \in store : r.id = i)
    IN [k \in 1 .. Len(keys) |-> CHOOSE r \in store : r.id = keys[k]]

\* refreshGraph's three forEach loops over what the three reads returned
AgentNodes(allAgents) ==
    [k \in 1 .. Len(allAgents) |-> Node(allAgents[k].id, "agent")]

FormNodes(allForms) ==
    [k \in 1 .. Len(allForms) |-> Node(allForms[k].id, "form")]

OutputNodes(allOutputs) ==
    [k \in 1 .. Len(allOutputs) |-> Node(allOutputs[k].id, "output")]

FormLinks(allForms) ==
    [k \in 1 .. Len(allForms) |-> Link(allForms[k].agentId, allForms[k].id)]

OutputLinks(allOutputs) ==
    [k \in 1 .. Len(allOutputs) |-> Link(allOutputs[k].formId, allOutputs[k].id)]

\* the value refreshGraph gives to setGraphData
GraphOf(allAgents, allForms, allOutputs) ==
    [nodes |-> AgentNodes(allAgents) \o FormNodes(allForms) \o OutputNodes(allOutputs),
     links |-> FormLinks(allForms) \o OutputLinks(allOutputs)]

\* the asynchronous handlers of the App: the init effect, OnboardingFlow's
\* submit, handleExecute, handleCreateProtocol, handleFactoryReset
Handlers == { "boot", "onboard", "execute", "create", "reset" }

\* a handler that is not running; a, f, o are refreshGraph's allAgents,
\* allForms, allOutputs, arg the id the handler carries
IdleTask == [pc |-> "idle", a |-> << >>, f |-> << >>, o |-> << >>, arg |-> Null]

\* useState({ nodes: [], links: [] })
EmptyGraph == [nodes |-> << >>, links |-> << >>]

\* the App shell at rest on an empty database
ShellAtRest ==
    /\ agents = {}
    /\ forms = {}
    /\ outputs = {}
    /\ tasks = [h \in Handlers |-> IdleTask]
    /\ views = [h \in Handlers |-> {}]
    /\ appState = "active"
    /\ appGraph = EmptyGraph

\* ------------------------------------------------------------ callGemini
\* let delay = 1000
InitialDelay == 1000
\* attempt < 5
Attempts == 5
\* attempt === 4
LastAttempt == 4
\* delay *= 2
Backoff == 2

\* What one fetch brings: fetch rejects (no network), or a response that is
\* ok or not, whose body is JSON or not, and in which
\* candidates[0].content.parts[0].text is missing (Null), empty, plain text
\* or the text of a JSON object.
JsonText == "{\"name\":\"x\"}"

Texts == {Null, "", "plain", JsonText}

Responses ==
    { [fetched |-> FALSE, ok |-> FALSE, body |-> FALSE, text |-> Null],
      [fetched |-> TRUE, ok |-> FALSE, body |-> TRUE, text |-> Null],
      [fetched |-> TRUE, ok |-> TRUE, body |-> FALSE, text |-> Null] }
    \cup { [fetched |-> TRUE, ok |-> TRUE, body |-> TRUE, text |-> t] : t \in Texts }

\* JSON.parse(text): the value, or Null where it throws a SyntaxError
JSONParse(text) == IF text = JsonText THEN "object name=x" ELSE Null

\* an attempt's outcome: the value it returns or the error it throws; each
\* attempt's Error is an object of its own
Returns(v, attempt) == [threw |-> FALSE, value |-> v, attempt |-> attempt]

Throws(e, attempt) == [threw |-> TRUE, value |-> e, attempt |-> attempt]

\* the try block of one attempt, on what its fetch brought
Try(resp, jsonSchema, attempt) ==
    IF ~resp.fetched THEN Throws("TypeError: Failed to fetch", attempt)
    ELSE IF ~resp.ok THEN Throws("Error: HTTP error! status", attempt)
    ELSE IF ~resp.body THEN Throws("SyntaxError: response.json()", attempt)
    ELSE IF resp.text = Null \/ resp.text = "" THEN Throws("Error: No text in response", attempt)
    ELSE IF ~jsonSchema THEN Returns(resp.text, attempt)
    ELSE IF JSONParse(resp.text) = Null THEN Throws("SyntaxError: JSON.parse", attempt)
    ELSE Returns(JSONParse(resp.text), attempt)

\* NextDelay that adds the first delay instead of doubling
NextDelayLinear(delay) == delay + InitialDelay

\* delay *= 2
NextDelay(delay) == delay * Backoff

\* no call of callGemini is under way
NoCall ==
    [pc |-> "idle", jsonSchema |-> FALSE, attempt |-> 0, delay |-> 0,
     log |-> << >>, waits |-> << >>, result |-> Returns(Null, 0)]

\* ------------------------------------------------------------- behaviour
NoFrame == [edges |-> << >>, stars |-> << >>]

\* the two Math.random() draws of a node the snapshot adds; <<0, 0>> stands
\* for no draw, for a node that is held already
DrawsFor(old, n) == IF Find(old, n.id) # 0 THEN { <<0, 0>> } ELSE Rand \X Rand

RECURSIVE DrawsFrom(_, _, _)
DrawsFrom(old, snap, k) ==
    IF k > Len(snap.nodes) THEN { << >> }
    ELSE { <<d>> \o rest : d \in DrawsFor(old, snap.nodes[k]),
                           rest \in DrawsFrom(old, snap, k + 1) }

Draws(old, snap) == DrawsFrom(old, snap, 1)

\* Dispatchable of a renderLoop that yields between its sections
DispatchAnyTime == TRUE

\* Handlers are synchronous functions on one task queue: the reconcile
\* effect, the resize listener, the effect cleanup and the frame callback
\* are entered only when no handler is on the call stack.
Dispatchable == pc = "idle"

\* physicsRef = useRef({nodes: [], links: []}); a canvas element is
\* 300 x 150 until it is sized; nothing is mounted yet.
Init ==
    /\ ctl = "idle"
    /\ pc = "idle"
    /\ nodes = << >>
    /\ links = << >>
    /\ graphData = [nodes |-> << >>, links |-> << >>]
    /\ \E v \in Viewports : winW = v[1] /\ winH = v[2]
    /\ canvasW = 300
    /\ canvasH = 150
    /\ listener = FALSE
    /\ pending = {}
    /\ animationRef = 0
    /\ frame = NoFrame
    /\ calls = 0
    /\ op = "init"
    /\ spawned = {}
    /\ events = 0
    /\ ShellAtRest
    /\ speeds = << >>
    /\ gemini = NoCall

\* The component mounts with the graphData of its first render: the
\* reconcile effect runs, then the frame loop effect attaches the listener,
\* sizes the canvas (resize()) and calls renderLoop().
Mount(snap, rnd) ==
    /\ ctl = "idle"
    /\ nodes' = NewNodes(nodes, snap, rnd, winW, winH)
    /\ links' = NewLinks(snap)
    /\ spawned' = NewSpawned(nodes, snap)
    /\ graphData' = snap
    /\ listener' = TRUE
    /\ canvasW' = winW
    /\ canvasH' = winH
    /\ ctl' = "running"
    /\ pc' = "start"
    /\ op' = "mount"
    /\ UNCHANGED <<winW, winH, pending, animationRef, frame, calls, events>>
    /\ UNCHANGED <<shellVars, speeds, gemini>>

\* The component mounts and canvas.getContext('2d') returns null: the frame
\* loop effect goes on as in Mount (listener, resize(), renderLoop()) with
\* ctx null.
MountNoContext(snap, rnd) ==
    /\ ctl = "idle"
    /\ nodes' = NewNodes(nodes, snap, rnd, winW, winH)
    /\ links' = NewLinks(snap)
    /\ spawned' = NewSpawned(nodes, snap)
    /\ graphData' = snap
    /\ listener' = TRUE
    /\ canvasW' = winW
    /\ canvasH' = winH
    /\ ctl' = "starting"
    /\ pc' = "start"
    /\ op' = "mount"
    /\ UNCHANGED <<winW, winH, pending, animationRef, frame, calls, events>>
    /\ UNCHANGED <<shellVars, speeds, gemini>>

\* useEffect(..., [graphData]): a new graphData was set and the effect runs.
Reconcile(snap, rnd) ==
    /\ ctl = "running"
    /\ Dispatchable
    /\ events < MaxEvents
    /\ nodes' = NewNodes(nodes, snap, rnd, winW, winH)
    /\ links' = NewLinks(snap)
    /\ spawned' = NewSpawned(nodes, snap)
    /\ graphData' = snap
    /\ events' = events + 1
    /\ op' = "reconcile"
    /\ UNCHANGED <<ctl, pc, winW, winH, canvasW, canvasH, listener, pending,
                   animationRef, frame, calls>>
    /\ UNCHANGED <<shellVars, speeds, gemini>>

\* The window changes size and the browser fires resize: the listener, when
\* attached, copies the window size to the canvas.
WindowResize(v) ==
    /\ ctl # "idle"
    /\ Dispatchable
    /\ events < MaxEvents
    /\ v # <<winW, winH>>
    /\ winW' = v[1]
    /\ winH' = v[2]
    /\ canvasW' = IF listener THEN v[1] ELSE canvasW
    /\ canvasH' = IF listener THEN v[2] ELSE canvasH
    /\ events' = events + 1
    /\ op' = "resize"
    /\ UNCHANGED <<ctl, pc, nodes, links, graphData, listener, pending,
                   animationRef, frame, calls, spawned>>
    /\ UNCHANGED <<shellVars, speeds, gemini>>

\* every coordinate is non-finite or within MaxCoord of the origin
InRange(ns) ==
    \A k \in 1 .. Len(ns) :
        /\ ns[k].x = NaN \/ Abs(ns[k].x) <= MaxCoord
        /\ ns[k].y = NaN \/ Abs(ns[k].y) <= MaxCoord

\* The browser runs a pending frame callback: renderLoop is entered.
FrameCallback(h) ==
    /\ Dispatchable
    /\ h \in pending
    /\ events < MaxEvents
    /\ InRange(nodes)
    /\ pending' = pending \ {h}
    /\ pc' = "start"
    /\ op' = "frame"
    /\ events' = events + 1
    /\ UNCHANGED <<ctl, nodes, links, graphData, winW, winH, canvasW, canvasH,
                   listener, animationRef, frame, calls, spawned>>
    /\ UNCHANGED <<shellVars, speeds, gemini>>

\* renderLoop, 1. Repulsion
StepRepulsion ==
    /\ pc = "start"
    /\ nodes' = Repulsion(nodes)
    /\ pc' = "repelled"
    /\ op' = "repulsion"
    /\ UNCHANGED <<ctl, links, graphData, winW, winH, canvasW, canvasH, listener,
                   pending, animationRef, frame, calls, spawned, events>>
    /\ UNCHANGED <<shellVars, speeds, gemini>>

\* renderLoop, 2. Attraction (Links)
StepAttraction ==
    /\ pc = "repelled"
    /\ nodes' = Attraction(nodes, links)
    /\ pc' = "attracted"
    /\ op' = "attraction"
    /\ UNCHANGED <<ctl, links, graphData, winW, winH, canvasW, canvasH, listener,
                   pending, animationRef, frame, calls, spawned, events>>
    /\ UNCHANGED <<shellVars, speeds, gemini>>

\* renderLoop, 3. Gravity & Planet Collision, damping, integration
StepIntegrate ==
    /\ pc = "attracted"
    /\ nodes' = Integrate(nodes, canvasW, canvasH)
    /\ pc' = "integrated"
    /\ op' = "integrate"
    /\ UNCHANGED <<ctl, links, graphData, winW, winH, canvasW, canvasH, listener,
                   pending, animationRef, frame, calls, spawned, events>>
    /\ UNCHANGED <<shellVars, speeds, gemini>>

\* StepRender that requests the next frame and does not record its handle
StepRenderStaleHandle ==
    /\ pc = "integrated"
    /\ ctl # "starting"
    /\ frame' = Render(nodes, links)
    /\ calls' = calls + 1
    /\ pending' = pending \cup {calls + 1}
    /\ pc' = "idle"
    /\ op' = "render"
    /\ UNCHANGED <<ctl, nodes, links, graphData, winW, winH, canvasW, canvasH,
                   listener, animationRef, spawned, events>>
    /\ UNCHANGED <<shellVars, speeds, gemini>>

\* renderLoop, RENDER, then animationRef.current = requestAnimationFrame(renderLoop)
StepRender ==
    /\ pc = "integrated"
    /\ ctl # "starting"
    /\ frame' = Render(nodes, links)
    /\ calls' = calls + 1
    /\ pending' = pending \cup {calls + 1}
    /\ animationRef' = calls + 1
    /\ pc' = "idle"
    /\ op' = "render"
    /\ UNCHANGED <<ctl, nodes, links, graphData, winW, winH, canvasW, canvasH,
                   listener, spawned, events>>
    /\ UNCHANGED <<shellVars, speeds, gemini>>

\* RenderThrows of a renderLoop that skips the drawing when ctx is null
RenderSkipsDrawing ==
    /\ pc = "integrated"
    /\ ctl = "starting"
    /\ calls' = calls + 1
    /\ pending' = pending \cup {calls + 1}
    /\ animationRef' = calls + 1
    /\ ctl' = "running"
    /\ pc' = "idle"
    /\ op' = "render"
    /\ UNCHANGED <<nodes, links, graphData, winW, winH, canvasW, canvasH,
                   listener, frame, spawned, events, shellVars, speeds, gemini>>

\* renderLoop, RENDER, with ctx null: ctx.fillStyle = '#000000' throws a
\* TypeError, which leaves renderLoop and the effect: nothing is drawn, no
\* frame is requested, no cleanup is returned.
RenderThrows ==
    /\ pc = "integrated"
    /\ ctl = "starting"
    /\ ctl' = "failed"
    /\ pc' = "idle"
    /\ op' = "error"
    /\ UNCHANGED <<nodes, links, graphData, winW, winH, canvasW, canvasH,
                   listener, pending, animationRef, frame, calls, spawned,
                   events, shellVars, speeds, gemini>>

\* Teardown that forgets cancelAnimationFrame
TeardownKeepsFrame ==
    /\ ctl = "running"
    /\ Dispatchable
    /\ listener' = FALSE
    /\ ctl' = "cancelled"
    /\ op' = "teardown"
    /\ UNCHANGED <<pc, nodes, links, graphData, winW, winH, canvasW, canvasH,
                   pending, animationRef, frame, calls, spawned, events>>
    /\ UNCHANGED <<shellVars, speeds, gemini>>

\* The effect cleanup: removeEventListener, cancelAnimationFrame(animationRef.current)
Teardown ==
    /\ ctl = "running"
    /\ Dispatchable
    /\ listener' = FALSE
    /\ pending' = pending \ {animationRef}
    /\ ctl' = "cancelled"
    /\ op' = "teardown"
    /\ UNCHANGED <<pc, nodes, links, graphData, winW, winH, canvasW, canvasH,
                   animationRef, frame, calls, spawned, events>>
    /\ UNCHANGED <<shellVars, speeds, gemini>>

Next ==
    \/ \E snap \in Snapshots : \E rnd \in Draws(nodes, snap) : Mount(snap, rnd)
    \/ \E snap \in Snapshots : \E rnd \in Draws(nodes, snap) : MountNoContext(snap, rnd)
    \/ \E snap \in Snapshots : \E rnd \in Draws(nodes, snap) : Reconcile(snap, rnd)
    \/ \E v \in Viewports : WindowResize(v)
    \/ \E h \in pending : FrameCallback(h)
    \/ StepRepulsion
    \/ StepAttraction
    \/ StepIntegrate
    \/ StepRender
    \/ RenderThrows
    \/ Teardown

Spec == Init /\ [][Next]_vars

\* ------------------------------------------------- the physics on its own
\* renderLoop entered on three linked nodes at positions of a small grid
\* (0, half a pixel, 122 pixels, in grid units), the first one moving or
\* not, in a window of any of the sizes.
PhysicsXs == {0, 8, 1952}

PhysicsYs == {0, 1600}

PhysicsVs == {0, 40}

PhysicsNode(id, type, x, y, v) ==
    [id |-> id, type |-> type, x |-> x, y |-> y, vx |-> v, vy |-> 0 - v]

PhysicsLinks == << Link("a1", "f1"), Link("f1", "o1") >>

InitPhysics ==
    /\ ctl = "running"
    /\ pc = "start"
    /\ \E x1 \in PhysicsXs, x2 \in PhysicsXs, x3 \in PhysicsXs :
       \E y1 \in PhysicsYs, y2 \in PhysicsYs, y3 \in PhysicsYs :
       \E v \in PhysicsVs :
          nodes = << PhysicsNode("a1", "agent", x1, y1, v),
                     PhysicsNode("f1", "form", x2, y2, 0),
                     PhysicsNode("o1", "output", x3, y3, 0) >>
    /\ links = PhysicsLinks
    /\ graphData = [nodes |-> << Node("a1", "agent"), Node("f1", "form"),
                                 Node("o1", "output") >>,
                    links |-> PhysicsLinks]
    /\ \E v \in Viewports : winW = v[1] /\ winH = v[2]
    /\ canvasW = winW
    /\ canvasH = winH
    /\ listener = TRUE
    /\ pending = {}
    /\ animationRef = 0
    /\ frame = NoFrame
    /\ calls = 0
    /\ op = "frame"
    /\ spawned = {}
    /\ events = 0
    /\ ShellAtRest
    /\ speeds = << >>
    /\ gemini = NoCall

NextPhysics ==
    \/ \E h \in pending : FrameCallback(h)
    \/ StepRepulsion
    \/ StepAttraction
    \/ StepIntegrate
    \/ StepRender

SpecPhysics == InitPhysics /\ [][NextPhysics]_vars

\* ------------------------------------------- the App shell and LocalDB
\* The App around ConstellationGraph: the stores, the handlers that write
\* them and refreshGraph, whose value reaches the reconcile effect as the
\* graphData prop.  A transaction sees the writes of the transactions
\* created before it on its store, so a put, a clear and a getAll take
\* effect when the handler issues them; the handler resumes in a later
\* step.  The ids: agent "a1", its onboarding form "f1", the form "f2" of
\* handleCreateProtocol (`form_${Date.now()}`), the output "o1".
Stores == <<agents, forms, outputs>>

\* handler t is inside refreshGraph
InRefresh(t) == tasks[t].pc \in { "forms", "outputs", "set" }

\* views after a write that leaves the stores as new
Seen(new) ==
    [h \in Handlers |-> IF InRefresh(h) THEN views[h] \cup {new} ELSE views[h]]

\* handler t calls refreshGraph: const allAgents = await db.getAll('agents')
Called(t) ==
    /\ tasks' = [tasks EXCEPT ![t] = [pc |-> "forms", a |-> getAll(agents),
                                      f |-> << >>, o |-> << >>, arg |-> @.arg]]
    /\ views' = [views EXCEPT ![t] = {Stores}]

\* a key that the JSON callGemini returned does not have
Absent == "absent"

\* what callGemini returns to handleCreateProtocol, as far as the spread
\* ...result can reach id and agentId: neither key, an id, a null agentId
Results ==
    { [id |-> Absent, agentId |-> Absent],
      [id |-> "a1", agentId |-> Absent],
      [id |-> Absent, agentId |-> Null] }

\* { id: `form_${Date.now()}`, agentId: agent.id, ...result }
NewForm(agentId, result) ==
    FormRecord(IF result.id = Absent THEN "f2" ELSE result.id,
               IF result.agentId = Absent THEN agentId ELSE result.agentId)

\* the database as earlier sessions can have left it
InitialStores ==
    { << {}, {}, {} >>,
      << {AgentRecord("a1")}, {FormRecord("f1", "a1")}, {} >> }

\* the draws of Math.random() followed in this part: 1/4 and 3/4 for
\* every node
FixedDraws(snap) == [k \in 1 .. Len(snap.nodes) |-> <<1, 3>>]

\* db.init().then(async () => { await refreshGraph(); ...
BootOpened ==
    /\ Dispatchable
    /\ tasks["boot"].pc = "init"
    /\ Called("boot")
    /\ op' = "boot"
    /\ UNCHANGED <<engineVars, events, agents, forms, outputs, appState,
                   appGraph, speeds, gemini>>

\* refreshGraph resumes: const allForms = await db.getAll('forms')
RefreshForms(t) ==
    /\ Dispatchable
    /\ tasks[t].pc = "forms"
    /\ tasks' = [tasks EXCEPT ![t].pc = "outputs", ![t].f = getAll(forms)]
    /\ op' = "getForms"
    /\ UNCHANGED <<engineVars, events, agents, forms, outputs, views, appState,
                   appGraph, speeds, gemini>>

\* refreshGraph resumes: const allOutputs = await db.getAll('outputs')
RefreshOutputs(t) ==
    /\ Dispatchable
    /\ tasks[t].pc = "outputs"
    /\ tasks' = [tasks EXCEPT ![t].pc = "set", ![t].o = getAll(outputs)]
    /\ op' = "getOutputs"
    /\ UNCHANGED <<engineVars, events, agents, forms, outputs, views, appState,
                   appGraph, speeds, gemini>>

\* refreshGraph resumes, builds nodes and links and calls setGraphData; its
\* caller resumes in the same turn: the init effect reads the agents, the
\* onboarding sets appState to active, the factory reset to onboarding
RefreshSet(t) ==
    /\ Dispatchable
    /\ tasks[t].pc = "set"
    /\ appGraph' = GraphOf(tasks[t].a, tasks[t].f, tasks[t].o)
    /\ tasks' = [tasks EXCEPT ![t] =
                    IF t = "boot"
                    THEN [IdleTask EXCEPT !.pc = "loaded", !.a = getAll(agents)]
                    ELSE IdleTask]
    /\ views' = [views EXCEPT ![t] = {}]
    /\ appState' = IF t = "onboard" THEN "active"
                   ELSE IF t = "reset" THEN "onboarding"
                   ELSE appState
    /\ op' = "setGraphData"
    /\ UNCHANGED <<engineVars, events, agents, forms, outputs, speeds, gemini>>

\* the init effect resumes with loadedAgents
BootActivate ==
    /\ Dispatchable
    /\ tasks["boot"].pc = "loaded"
    /\ appState' = IF Len(tasks["boot"].a) > 0 THEN "active" ELSE "onboarding"
    /\ tasks' = [tasks EXCEPT !["boot"] = IdleTask]
    /\ op' = "activate"
    /\ UNCHANGED <<engineVars, events, agents, forms, outputs, views, appGraph,
                   speeds, gemini>>

\* OnboardingFlow: callGemini has returned one agent with one form;
\* await db.put('agents', agent)
OnboardStart ==
    /\ Dispatchable
    /\ appState = "onboarding"
    /\ tasks["onboard"].pc = "idle"
    /\ events < MaxEvents
    /\ agents' = put(agents, AgentRecord("a1"))
    /\ views' = Seen(<<agents', forms, outputs>>)
    /\ tasks' = [tasks EXCEPT !["onboard"].pc = "putForm"]
    /\ events' = events + 1
    /\ op' = "onboard"
    /\ UNCHANGED <<engineVars, forms, outputs, appState, appGraph, speeds, gemini>>

\* await db.put('forms', { id, agentId: agent.id, ... })
OnboardPutForm ==
    /\ Dispatchable
    /\ tasks["onboard"].pc = "putForm"
    /\ forms' = put(forms, FormRecord("f1", "a1"))
    /\ views' = Seen(<<agents, forms', outputs>>)
    /\ tasks' = [tasks EXCEPT !["onboard"].pc = "complete"]
    /\ op' = "putForm"
    /\ UNCHANGED <<engineVars, events, agents, outputs, appState, appGraph,
                   speeds, gemini>>

\* onComplete(finalAgents): setAgents(newAgents); await refreshGraph()
OnboardComplete ==
    /\ Dispatchable
    /\ tasks["onboard"].pc = "complete"
    /\ Called("onboard")
    /\ op' = "onComplete"
    /\ UNCHANGED <<engineVars, events, agents, forms, outputs, appState,
                   appGraph, speeds, gemini>>

\* handleExecute on the form activeForm of an agent: await callGemini(...)
ExecuteStart(form) ==
    /\ Dispatchable
    /\ appState = "active"
    /\ tasks["execute"].pc = "idle"
    /\ events < MaxEvents
    /\ form \in forms
    /\ \E agent \in agents : form.agentId = agent.id
    /\ tasks' = [tasks EXCEPT !["execute"].pc = "gemini", !["execute"].arg = form.id]
    /\ events' = events + 1
    /\ op' = "execute"
    /\ UNCHANGED <<engineVars, agents, forms, outputs, views, appState, appGraph,
                   speeds, gemini>>

\* await db.put('outputs', { id: `out_${Date.now()}`, formId: activeForm.id, ... })
ExecutePut ==
    /\ Dispatchable
    /\ tasks["execute"].pc = "gemini"
    /\ outputs' = put(outputs, OutputRecord("o1", tasks["execute"].arg))
    /\ views' = Seen(<<agents, forms, outputs'>>)
    /\ tasks' = [tasks EXCEPT !["execute"].pc = "put"]
    /\ op' = "putOutput"
    /\ UNCHANGED <<engineVars, events, agents, forms, appState, appGraph, speeds, gemini>>

\* await refreshGraph() of handleExecute
ExecuteRefresh ==
    /\ Dispatchable
    /\ tasks["execute"].pc = "put"
    /\ Called("execute")
    /\ op' = "executeRefresh"
    /\ UNCHANGED <<engineVars, events, agents, forms, outputs, appState,
                   appGraph, speeds, gemini>>

\* handleCreateProtocol for the agent of the workspace: await callGemini(...)
CreateStart(agent) ==
    /\ Dispatchable
    /\ appState = "active"
    /\ tasks["create"].pc = "idle"
    /\ events < MaxEvents
    /\ agent \in agents
    /\ tasks' = [tasks EXCEPT !["create"].pc = "gemini", !["create"].arg = agent.id]
    /\ events' = events + 1
    /\ op' = "create"
    /\ UNCHANGED <<engineVars, agents, forms, outputs, views, appState, appGraph,
                   speeds, gemini>>

\* await db.put('forms', { id: `form_${Date.now()}`, agentId: agent.id, ...result });
\* what follows (setNewFormPrompt, reloadForms, setIsCreatingForm) reads the
\* forms of the agent for the panel and changes nothing here
CreatePut(result) ==
    /\ Dispatchable
    /\ tasks["create"].pc = "gemini"
    /\ forms' = put(forms, NewForm(tasks["create"].arg, result))
    /\ views' = Seen(<<agents, forms', outputs>>)
    /\ tasks' = [tasks EXCEPT !["create"] = IdleTask]
    /\ op' = "putProtocol"
    /\ UNCHANGED <<engineVars, events, agents, outputs, appState, appGraph,
                   speeds, gemini>>

\* handleFactoryReset, confirmed: await db.clearAll()
ResetStart ==
    /\ Dispatchable
    /\ appState = "active"
    /\ tasks["reset"].pc = "idle"
    /\ events < MaxEvents
    /\ agents' = {}
    /\ forms' = {}
    /\ outputs' = {}
    /\ views' = Seen(<< {}, {}, {} >>)
    /\ tasks' = [tasks EXCEPT !["reset"].pc = "cleared"]
    /\ events' = events + 1
    /\ op' = "reset"
    /\ UNCHANGED <<engineVars, appState, appGraph, speeds, gemini>>

\* setAgents([]); setActiveAgent(null); await refreshGraph()
ResetRefresh ==
    /\ Dispatchable
    /\ tasks["reset"].pc = "cleared"
    /\ Called("reset")
    /\ op' = "resetRefresh"
    /\ UNCHANGED <<engineVars, events, agents, forms, outputs, appState,
                   appGraph, speeds, gemini>>

\* App renders <ConstellationGraph graphData={graphData} /> once appState
\* has left booting: the component mounts with the graphData of then
GraphMount == appState # "booting" /\ Mount(appGraph, FixedDraws(appGraph))

\* useEffect(..., [graphData]) after a render with a new graphData
GraphEffect ==
    /\ ctl = "running"
    /\ Dispatchable
    /\ appGraph # graphData
    /\ nodes' = NewNodes(nodes, appGraph, FixedDraws(appGraph), winW, winH)
    /\ links' = NewLinks(appGraph)
    /\ spawned' = NewSpawned(nodes, appGraph)
    /\ graphData' = appGraph
    /\ op' = "reconcile"
    /\ UNCHANGED <<ctl, pc, winW, winH, canvasW, canvasH, listener, pending,
                   animationRef, frame, calls, events, shellVars, speeds, gemini>>

InitData ==
    /\ ctl = "idle"
    /\ pc = "idle"
    /\ nodes = << >>
    /\ links = << >>
    /\ graphData = EmptyGraph
    /\ winW = 800
    /\ winH = 600
    /\ canvasW = 300
    /\ canvasH = 150
    /\ listener = FALSE
    /\ pending = {}
    /\ animationRef = 0
    /\ frame = NoFrame
    /\ calls = 0
    /\ op = "init"
    /\ spawned = {}
    /\ events = 0
    /\ \E s \in InitialStores : agents = s[1] /\ forms = s[2] /\ outputs = s[3]
    /\ tasks = [h \in Handlers |->
                   IF h = "boot" THEN [IdleTask EXCEPT !.pc = "init"] ELSE IdleTask]
    /\ views = [h \in Handlers |-> {}]
    /\ appState = "booting"
    /\ appGraph = EmptyGraph
    /\ speeds = << >>
    /\ gemini = NoCall

\* the steps that a handler already under way takes when it resumes
Resume ==
    \/ BootOpened
    \/ \E t \in Handlers : RefreshForms(t)
    \/ \E t \in Handlers : RefreshOutputs(t)
    \/ \E t \in Handlers : RefreshSet(t)
    \/ BootActivate
    \/ OnboardPutForm
    \/ OnboardComplete
    \/ ExecutePut
    \/ ExecuteRefresh
    \/ \E result \in Results : CreatePut(result)
    \/ ResetRefresh
    \/ GraphMount
    \/ GraphEffect
    \/ StepRepulsion
    \/ StepAttraction
    \/ StepIntegrate
    \/ StepRender

NextData ==
    \/ Resume
    \/ OnboardStart
    \/ \E form \in forms : ExecuteStart(form)
    \/ \E agent \in agents : CreateStart(agent)
    \/ ResetStart

SpecData == InitData /\ [][NextData]_vars

\* --------------------------------------------- the spring on its own
\* Two linked nodes at rest, a1 at the origin and f1 at one of these
\* offsets (grid units: 20, 60, 200, 400 and 800 pixels along x, and 500
\* pixels along a diagonal), on which only the attraction phase and the
\* damping and integration act, step after step.
SpringOffsets ==
    { <<320, 0>>, <<960, 0>>, <<3200, 0>>, <<6400, 0>>, <<12800, 0>>,
      <<4800, 6400>> }

\* vx * vx + vy * vy
SpeedSq(n) == Add(Mul(n.vx, n.vx), Mul(n.vy, n.vy))

InitSpring ==
    /\ ctl = "running"
    /\ pc = "idle"
    /\ \E d \in SpringOffsets :
          nodes = << [id |-> "a1", type |-> "agent", x |-> 0, y |-> 0, vx |-> 0, vy |-> 0],
                     [id |-> "f1", type |-> "form", x |-> d[1], y |-> d[2],
                      vx |-> 0, vy |-> 0] >>
    /\ links = << Link("a1", "f1") >>
    /\ graphData = [nodes |-> << Node("a1", "agent"), Node("f1", "form") >>,
                    links |-> << Link("a1", "f1") >>]
    /\ winW = 800
    /\ winH = 600
    /\ canvasW = winW
    /\ canvasH = winH
    /\ listener = TRUE
    /\ pending = {}
    /\ animationRef = 0
    /\ frame = NoFrame
    /\ calls = 0
    /\ op = "init"
    /\ spawned = {}
    /\ events = 0
    /\ ShellAtRest
    /\ speeds = << >>
    /\ gemini = NoCall

\* renderLoop's 2. Attraction, then its damping and integration, with no
\* repulsion, gravity or planet
SpringStep ==
    /\ Len(speeds) < MaxSteps
    /\ nodes' = [k \in 1 .. Len(nodes) |-> DampNode(Attraction(nodes, links)[k])]
    /\ speeds' = Append(speeds, SpeedSq(nodes'[1]))
    /\ op' = "spring"
    /\ UNCHANGED <<ctl, pc, links, graphData, winW, winH, canvasW, canvasH,
                   listener, pending, animationRef, frame, calls, spawned,
                   events, shellVars, gemini>>

NextSpring == SpringStep

SpecSpring == InitSpring /\ [][NextSpring]_vars

\* ------------------------------------- the frame loop under its scheduler
\* The frame loop under its scheduler.  The browser runs a frame callback
\* that stays pending (requestAnimationFrame).  renderLoop is synchronous:
\* once entered it goes on from each section to the next, to its end, which
\* is stated on pc, its position.  Mounting, new graphData, resizes and the
\* teardown are the environment's and may never happen.
Sections == {"start", "repelled", "attracted", "integrated", "idle"}

RunsOn == pc # "idle" /\ pc' \in Sections /\ pc' # pc

TickFairness ==
    /\ WF_vars(\E h \in pending : FrameCallback(h))
    /\ WF_pc(RunsOn)

\* the graphs the loop is followed on: none, one agent, an agent and its form
LoopSnapshots ==
    { [nodes |-> << >>, links |-> << >>],
      [nodes |-> << Node("a1", "agent") >>, links |-> << >>],
      [nodes |-> << Node("a1", "agent"), Node("f1", "form") >>,
       links |-> << Link("a1", "f1") >>] }

NextLoop ==
    \/ \E snap \in LoopSnapshots : Mount(snap, FixedDraws(snap))
    \/ \E snap \in LoopSnapshots : Reconcile(snap, FixedDraws(snap))
    \/ \E v \in Viewports : WindowResize(v)
    \/ \E h \in pending : FrameCallback(h)
    \/ StepRepulsion
    \/ StepAttraction
    \/ StepIntegrate
    \/ StepRender
    \/ Teardown

SpecLoop == Init /\ [][NextLoop]_vars /\ TickFairness

\* ------------------------------------------------ callGemini on its own
\* One call of callGemini, with or without a schema, each fetch bringing
\* any of the Responses; nothing else of the App moves.  gemini.log holds
\* what the fetch of every attempt made brought, gemini.waits the delay of
\* every timer that was awaited.
InitGemini ==
    /\ ctl = "idle"
    /\ pc = "idle"
    /\ nodes = << >>
    /\ links = << >>
    /\ graphData = [nodes |-> << >>, links |-> << >>]
    /\ winW = 800
    /\ winH = 600
    /\ canvasW = 300
    /\ canvasH = 150
    /\ listener = FALSE
    /\ pending = {}
    /\ animationRef = 0
    /\ frame = NoFrame
    /\ calls = 0
    /\ op = "init"
    /\ spawned = {}
    /\ events = 0
    /\ ShellAtRest
    /\ speeds = << >>
    /\ gemini = NoCall

\* callGemini(systemPrompt, userQuery, jsonSchema) up to its first fetch
CallGemini(jsonSchema) ==
    /\ gemini.pc = "idle"
    /\ gemini' = [NoCall EXCEPT !.pc = "fetch", !.jsonSchema = jsonSchema,
                                !.delay = InitialDelay]
    /\ UNCHANGED <<engineVars, op, events, shellVars, speeds>>

\* The fetch of the attempt under way settles and the try block runs on it:
\* it returns, or it throws into the catch, which rethrows in the last
\* attempt and sets the timer otherwise.
Attempt(resp) ==
    /\ gemini.pc = "fetch"
    /\ LET out == Try(resp, gemini.jsonSchema, gemini.attempt)
       IN gemini' = [gemini EXCEPT
                       !.log = Append(@, resp),
                       !.pc = IF ~out.threw THEN "returned"
                              ELSE IF gemini.attempt = LastAttempt THEN "thrown"
                              ELSE "wait",
                       !.result = IF ~out.threw \/ gemini.attempt = LastAttempt
                                  THEN out ELSE @]
    /\ UNCHANGED <<engineVars, op, events, shellVars, speeds>>

\* The timer of the catch fires: delay *= 2, attempt++, and the loop goes
\* on while attempt < 5 (a loop that ended would return undefined).
TimerFires ==
    /\ gemini.pc = "wait"
    /\ gemini' = [gemini EXCEPT
                    !.waits = Append(@, gemini.delay),
                    !.delay = NextDelay(gemini.delay),
                    !.attempt = @ + 1,
                    !.pc = IF gemini.attempt + 1 < Attempts THEN "fetch" ELSE "returned"]
    /\ UNCHANGED <<engineVars, op, events, shellVars, speeds>>

NextGemini ==
    \/ \E jsonSchema \in BOOLEAN : CallGemini(jsonSchema)
    \/ \E resp \in Responses : Attempt(resp)
    \/ TimerFires

SpecGemini == InitGemini /\ [][NextGemini]_vars

\* ================================================================ claims
Ids(ns) == [k \in 1 .. Len(ns) |-> ns[k].id]

SameKinematics(n, m) == n.x = m.x /\ n.y = m.y /\ n.vx = m.vx /\ n.vy = m.vy

\* C1: a reconcile leaves x, y, vx, vy of every node whose id was held
\* before it as they were, whatever reconciles and ticks came before.
C1_ReconcilePreservesKinematics ==
    [][op' = "reconcile" =>
         \A k \in 1 .. Len(nodes') :
             LET e == Find(nodes, nodes'[k].id)
             IN e # 0 => SameKinematics(nodes'[k], nodes[e])]_vars

\* a reconcile has just kept a node that was moving
C1_Witness ==
    /\ op = "reconcile"
    /\ \E k \in 1 .. Len(nodes) : k \notin spawned /\ nodes[k].vx # 0 /\ nodes[k].vx # NaN

\* the x a spawn can give in a window of this width, the y for this height
SpawnXs(width) == { SpawnX(r, width) : r \in Rand }

SpawnYs(height) == { SpawnY(r, height) : r \in Rand }

\* C2: the held nodes are exactly the nodes of the last reconciled snapshot,
\* in its order, and the held links are its links verbatim, in every state
\* (so no tick adds or removes a node); an id that is not held when a
\* snapshot brings it (again) is spawned afresh, with zero velocity.
C2_HeldIsLastSnapshot ==
    [][/\ Ids(nodes') = Ids(graphData'.nodes)
       /\ links' = graphData'.links
       /\ op' = "reconcile" =>
            \A k \in 1 .. Len(nodes') :
                Find(nodes, nodes'[k].id) = 0 =>
                    /\ nodes'[k].vx = 0 /\ nodes'[k].vy = 0
                    /\ nodes'[k].x \in SpawnXs(winW)
                    /\ nodes'[k].y \in SpawnYs(winH)]_vars

\* f1 was held and drawn, was dropped, and a reconcile has just brought it
\* back: it is not where the last frame drew it
C2_Witness ==
    /\ op = "reconcile"
    /\ \E k \in spawned : \E j \in 1 .. Len(frame.stars) :
          /\ frame.stars[j].id = nodes[k].id
          /\ frame.stars[j].x # nodes[k].x
          /\ nodes[k].vx = 0 /\ nodes[k].vy = 0

\* the reconcile effect has just run (at the mount or on a data change)
JustReconciled == op = "reconcile" \/ op = "mount"

\* C3 as stated: every node a reconcile creates has 0 <= x < width,
\* 0 <= y < height/2 and vx = vy = 0, for the window's width and height.
C3_SpawnRegionAsStated ==
    JustReconciled =>
        \A k \in spawned :
            /\ 0 <= nodes[k].x /\ nodes[k].x < winW * Scale
            /\ 0 <= nodes[k].y /\ 2 * nodes[k].y < winH * Scale
            /\ nodes[k].vx = 0 /\ nodes[k].vy = 0

\* C3 amended: every node a reconcile creates has vx = vy = 0, and
\* 0 <= x < width when width > 0, x = 0 when width = 0, and
\* 0 <= y < height/2 when height > 0, y = 0 when height = 0.
C3_SpawnRegion ==
    JustReconciled =>
        \A k \in spawned :
            /\ 0 <= nodes[k].x
            /\ IF winW > 0 THEN nodes[k].x < winW * Scale ELSE nodes[k].x = 0
            /\ 0 <= nodes[k].y
            /\ IF winH > 0 THEN 2 * nodes[k].y < winH * Scale ELSE nodes[k].y = 0
            /\ nodes[k].vx = 0 /\ nodes[k].vy = 0

\* a reconcile has just created a node in a window that has an area
C3_Witness ==
    /\ op = "reconcile"
    /\ winW > 0 /\ winH > 0
    /\ \E k \in spawned : nodes[k].x > 0 /\ nodes[k].y > 0

\* C4: once the teardown has run no frame callback is pending, the resize
\* listener is detached and renderLoop is not running; from then on the
\* controller stays cancelled and no step changes the nodes, the drawn frame
\* or the canvas size.
C4_TeardownStopsLoop ==
    [][/\ ctl' = "cancelled" => pending' = {} /\ ~listener' /\ pc' = "idle"
       /\ ctl = "cancelled" =>
            /\ ctl' = "cancelled"
            /\ nodes' = nodes /\ links' = links /\ frame' = frame
            /\ canvasW' = canvasW /\ canvasH' = canvasH
            /\ calls' = calls]_vars

\* the window was resized after the teardown and the canvas kept its size
C4_Witness ==
    /\ ctl = "cancelled"
    /\ op = "resize"
    /\ <<canvasW, canvasH>> # <<winW, winH>>
    /\ calls >= 1

TickSteps == {"repulsion", "attraction", "integrate", "render", "error"}

\* C5: while renderLoop is running (between its entry and its reschedule)
\* every step is a step of that renderLoop: no reconcile, resize, teardown
\* or other frame callback begins before it has completed; and a reconcile,
\* one step, replaces nodes and links together.
C5_TickAndReconcileExclusive ==
    [][/\ pc # "idle" => op' \in TickSteps
       /\ op' = "reconcile" =>
            pc = "idle" /\ pc' = "idle" /\ Ids(nodes') = Ids(graphData'.nodes)
                        /\ links' = graphData'.links]_vars

\* renderLoop is running on a list that a reconcile changed since the last
\* frame was drawn
C5_Witness ==
    /\ pc = "attracted"
    /\ calls >= 1
    /\ Ids(nodes) # [k \in 1 .. Len(frame.stars) |-> frame.stars[k].id]

\* the links of ls whose two ends are held
LiveLinks(ns, ls) == SelectSeq(ls, LAMBDA l : Resolved(ns, l))

IdSet(ns) == { ns[k].id : k \in 1 .. Len(ns) }

\* C6: a link with an end that is not held changes no velocity in the
\* attraction phase (the phase does what it would do were the link absent)
\* and no edge is drawn for it: the edges drawn are the links with both
\* ends held, one each.
C6_DanglingLinkTolerated ==
    [][/\ op' = "attraction" => nodes' = Attraction(nodes, LiveLinks(nodes, links))
       /\ op' = "render" =>
            /\ Len(frame'.edges) = Len(LiveLinks(nodes, links))
            /\ \A k \in 1 .. Len(frame'.edges) :
                  /\ frame'.edges[k].source \in IdSet(nodes)
                  /\ frame'.edges[k].target \in IdSet(nodes)]_vars

\* a frame was drawn for a held node and a link whose source is not held
C6_Witness ==
    /\ op = "render"
    /\ Len(nodes) > 0
    /\ \E k \in 1 .. Len(links) : ~Resolved(nodes, links[k])
    /\ Len(frame.edges) < Len(links)

RECURSIVE SumVx(_, _)
SumVx(ns, k) == IF k > Len(ns) THEN 0 ELSE Add(ns[k].vx, SumVx(ns, k + 1))

RECURSIVE SumVy(_, _)
SumVy(ns, k) == IF k > Len(ns) THEN 0 ELSE Add(ns[k].vy, SumVy(ns, k + 1))

FiniteNode(n) == IsFinite(n.x) /\ IsFinite(n.y) /\ IsFinite(n.vx) /\ IsFinite(n.vy)

AllFinite(ns) == \A k \in 1 .. Len(ns) : FiniteNode(ns[k])

\* C8 as stated: two nodes with identical coordinates at the start of a
\* tick (x and y do not change before the integration) are both finite in
\* x, y, vx, vy after the integration of that tick.
C8_CoincidentStayFinite ==
    [][op' = "integrate" =>
         \A i \in 1 .. Len(nodes) : \A j \in 1 .. Len(nodes) :
             (/\ i # j
              /\ FiniteNode(nodes[i]) /\ FiniteNode(nodes[j])
              /\ nodes[i].x = nodes[j].x /\ nodes[i].y = nodes[j].y)
             => FiniteNode(nodes'[i]) /\ FiniteNode(nodes'[j])]_vars

\* C9 as stated: with a canvas of width 0 or height 0, the integration of
\* a tick keeps every node finite in x, y, vx, vy, wherever the nodes are.
C9_DegenerateViewportStaysFinite ==
    [][(op' = "integrate" /\ (canvasW = 0 \/ canvasH = 0) /\ AllFinite(nodes))
         => AllFinite(nodes')]_vars

SnapshotA == [nodes |-> << Node("a1", "agent") >>, links |-> << >>]

SnapshotAF ==
    [nodes |-> << Node("a1", "agent"), Node("f1", "form") >>,
     links |-> << Link("a1", "f1") >>]

\* the squared distance between the first two nodes, in squared grid units
DistSq(ns) ==
    Add(Mul(Sub(ns[1].x, ns[2].x), Sub(ns[1].x, ns[2].x)),
        Mul(Sub(ns[1].y, ns[2].y), Sub(ns[1].y, ns[2].y)))

RestSq == (SPRING_LENGTH * Scale) * (SPRING_LENGTH * Scale)

\* {a1} is reconciled to {a1, f1, a1 -> f1}
ScenarioReconcile == op' = "reconcile" /\ graphData = SnapshotA /\ graphData' = SnapshotAF

\* the first tick on {a1, f1} after a frame that drew a1 alone
ScenarioFirstTick ==
    /\ graphData = SnapshotAF
    /\ Len(frame.stars) = 1
    /\ frame.stars[1].id = "a1"
    /\ AllFinite(nodes)

Before(n) == [n EXCEPT !.x = n.x - n.vx, !.y = n.y - n.vy]

C11_TypeImmutable ==
    [][op' = "reconcile" =>
         \A k \in 1 .. Len(nodes') :
             LET e == Find(nodes, nodes'[k].id)
             IN e # 0 => nodes'[k].type = nodes[e].type]_vars

\* C14: when the 2D context is unavailable at the start, the first
\* renderLoop ends in an error thrown out of the effect; from the start on
\* the controller is never running: no frame is requested or drawn, and once
\* it has failed it stays failed, renderLoop is not entered again and the
\* nodes stay as they are.
C14_NoSurfaceNoLoop ==
    [][/\ (ctl = "starting" /\ pc = "integrated") => (ctl' = "failed" /\ op' = "error")
       /\ ctl \in {"starting", "failed"} =>
            /\ ctl' \in {"starting", "failed"}
            /\ pending' = {} /\ calls' = 0 /\ animationRef' = 0
            /\ frame' = NoFrame
       /\ ctl = "failed" =>
            /\ ctl' = "failed" /\ pc' = "idle"
            /\ nodes' = nodes /\ links' = links /\ graphData' = graphData]_vars

\* the start has failed on a graph with nodes, and the window was resized
\* afterwards
C14_Witness ==
    /\ ctl = "failed"
    /\ op = "resize"
    /\ Len(nodes) > 0
    /\ calls = 0

\* the velocity the spring of C15 adds to the source of a link on one axis:
\* along d (the offset target - source on that axis), the distance floored
\* to one pixel
FlooredSpring(d, root) ==
    LET dist == IF root < Scale THEN Scale ELSE root
    IN Ratio(d, dist, Frac(dist - SPRING_LENGTH * Scale, SPRING_K_NUM, 100))

\* C15 as stated: the repulsion adds to neither node of a pair more than
\* R = 2000 on an axis (its squared distance being floored to 1), and the
\* spring of a resolved link adds what the distance floored to 1 gives,
\* at separations between 0 and 1 too.
C15_DistanceFloor ==
    [][/\ op' = "repulsion" =>
            \A i \in 1 .. Len(nodes) : \A j \in (i + 1) .. Len(nodes) :
                LET f == RepulsionForce(nodes, i, j)
                IN (IsFinite(f.fx) /\ IsFinite(f.fy)) =>
                      /\ Abs(f.fx) <= REPULSION * Scale
                      /\ Abs(f.fy) <= REPULSION * Scale
       /\ op' = "attraction" =>
            \A k \in 1 .. Len(links) :
                (Resolved(nodes, links[k]) /\ AllFinite(nodes)) =>
                   LET s == Find(nodes, links[k].source)
                       t == Find(nodes, links[k].target)
                       dx == nodes[t].x - nodes[s].x
                       dy == nodes[t].y - nodes[s].y
                       root == Sqrt(dx * dx + dy * dy)
                       after == AttractLink(nodes, links[k])
                   IN /\ after[s].vx - nodes[s].vx = FlooredSpring(dx, root)
                      /\ after[s].vy - nodes[s].vy = FlooredSpring(dy, root)]_vars

\* C17: the RENDER section of a tick runs right after the integration of
\* that tick, which is complete for every node: it draws every node at the
\* position the integration gave it and changes no node, and nothing is
\* drawn while the physics phases run.
C17_RenderAfterCommit ==
    [][/\ op' = "render" =>
            /\ op = "integrate"
            /\ nodes' = nodes
            /\ Len(frame'.stars) = Len(nodes)
            /\ \A k \in 1 .. Len(nodes) :
                  /\ frame'.stars[k].id = nodes[k].id
                  /\ frame'.stars[k].x = nodes[k].x
                  /\ frame'.stars[k].y = nodes[k].y
       /\ op' \in {"repulsion", "attraction", "integrate"} => frame' = frame]_vars

\* a frame has just been drawn with a node that the integration of this
\* tick moved, at its new position
C17_Witness ==
    /\ op = "render"
    /\ \E k \in 1 .. Len(nodes) :
          /\ IsFinite(nodes[k].vx) /\ nodes[k].vx # 0
          /\ frame.stars[k].x = nodes[k].x

\* C19: x, y, vx, vy of the held nodes change only in the physics phases
\* of a tick: the render, a resize, the teardown and the entry of a frame
\* callback leave every node as it is, a reconcile leaves them unchanged
\* for every id it keeps, the repulsion and the attraction change
\* velocities only, and the integration multiplies each velocity by the
\* damping once and adds the damped velocity to the position once.
C19_SingleMutator ==
    [][/\ op' \in {"render", "resize", "teardown", "frame", "error"} => nodes' = nodes
       /\ op' = "reconcile" =>
            \A k \in 1 .. Len(nodes') :
                LET e == Find(nodes, nodes'[k].id)
                IN e # 0 => SameKinematics(nodes'[k], nodes[e])
       /\ op' \in {"repulsion", "attraction"} =>
            /\ Len(nodes') = Len(nodes)
            /\ \A k \in 1 .. Len(nodes) :
                  nodes'[k].x = nodes[k].x /\ nodes'[k].y = nodes[k].y
       /\ op' = "integrate" =>
            /\ Len(nodes') = Len(nodes)
            /\ \A k \in 1 .. Len(nodes) :
                  LET pushed == PushNode(nodes[k], canvasW, canvasH,
                                         getPlanetConfig(canvasW, canvasH))
                  IN /\ nodes'[k].vx = Frac(pushed.vx, DAMPING_NUM, 100)
                     /\ nodes'[k].vy = Frac(pushed.vy, DAMPING_NUM, 100)
                     /\ nodes'[k].x = Add(nodes[k].x, nodes'[k].vx)
                     /\ nodes'[k].y = Add(nodes[k].y, nodes'[k].vy)]_vars

\* the integration of a later tick has just moved a node that a reconcile
\* had kept
C19_Witness ==
    /\ op = "integrate"
    /\ calls >= 1
    /\ spawned # {}
    /\ \E k \in 1 .. Len(nodes) :
          /\ k \notin spawned
          /\ IsFinite(nodes[k].vx) /\ nodes[k].vx # 0
          /\ IsFinite(nodes[k].x)

\* the squared speed before step i + 1 (0 at rest, before the first step)
SpeedAt(i) == IF i = 0 THEN 0 ELSE speeds[i]

\* the speed rose into step i and fell after it
IsPeak(i) ==
    /\ i \in 1 .. (Len(speeds) - 1)
    /\ SpeedAt(i - 1) < speeds[i]
    /\ speeds[i] > speeds[i + 1]

\* C18 as stated: once the speed has fallen from one step to the next (it
\* has peaked), it does not rise again on any later step.  (The claim says
\* more, that it strictly falls; on the grid a speed can stay equal from
\* one step to the next, which is not held against it.)
C18_FallsAfterPeak ==
    \A i \in 1 .. (Len(speeds) - 1) : \A j \in (i + 1) .. (Len(speeds) - 1) :
        speeds[i] > speeds[i + 1] => speeds[j] >= speeds[j + 1]

\* the first peak of the speed
IsFirstPeak(i) == IsPeak(i) /\ \A k \in 1 .. (i - 1) : ~IsPeak(k)

\* C18 amended: the speed does not diverge: after its first peak it stays
\* strictly below that peak on every later step (it falls, and rises again
\* to a lower value as the nodes swing past the rest length).
C18_StaysBelowFirstPeak ==
    \A i \in 1 .. (Len(speeds) - 1) :
        IsFirstPeak(i) => \A j \in (i + 1) .. Len(speeds) : speeds[j] < speeds[i]

\* the speed has peaked, fallen, and risen to a second, lower peak
C18_Witness ==
    \E i \in 1 .. (Len(speeds) - 1) : \E j \in (i + 1) .. (Len(speeds) - 1) :
        /\ IsPeak(i) /\ IsPeak(j)
        /\ speeds[j] > 0
        /\ speeds[j] < speeds[i]

NoDuplicates(seq) ==
    \A i \in 1 .. Len(seq) : \A j \in 1 .. Len(seq) : i # j => seq[i] # seq[j]

\* C12 as stated: whatever the stores hold, the snapshot refreshGraph
\* gives to setGraphData has no two nodes with the same id, and neither has
\* the held node list.
C12_UniqueIds ==
    /\ NoDuplicates(Ids(appGraph.nodes))
    /\ NoDuplicates(Ids(nodes))

\* the snapshot of the stores as they are now
Current == GraphOf(getAll(agents), getAll(forms), getAll(outputs))

\* no handler is under way, the graph is mounted and its effect has run
Settled ==
    /\ \A h \in Handlers : tasks[h].pc = "idle"
    /\ ctl = "running"
    /\ pc = "idle"
    /\ graphData = appGraph

\* C13 as stated, as the final result: once every handler that wrote the
\* stores has run to its end (and React has rendered), the snapshot the
\* engine holds is the snapshot of the stores, so every agent, form and
\* output that was put is a node and every cleared one is gone.
C13_ChangesReachGraph == Settled => graphData = Current

\* the links refreshGraph is to emit for these forms and outputs: one for
\* each record that has the key of its parent
LinksOfKeyed(allForms, allOutputs) ==
    FormLinks(SelectSeq(allForms, LAMBDA r : r.agentId # Null))
    \o OutputLinks(SelectSeq(allOutputs, LAMBDA r : r.formId # Null))

\* handler t passes its snapshot to setGraphData in this step
Sets(t) == tasks[t].pc = "set" /\ tasks'[t].pc # "set"

\* C16 as stated: the links of every snapshot given to setGraphData are one
\* link parent -> entity for each form and output read that has its parent
\* key, none for a record without it, so both ends of every link are
\* defined.
C16_LinkPerForeignKey ==
    [][\A t \in Handlers :
          Sets(t) =>
             /\ appGraph'.links = LinksOfKeyed(tasks[t].f, tasks[t].o)
             /\ \A k \in 1 .. Len(appGraph'.links) :
                   /\ appGraph'.links[k].source # Null
                   /\ appGraph'.links[k].target # Null]_vars

\* C20 as stated: every snapshot given to setGraphData is the snapshot of
\* the stores as they were at one moment between the call of refreshGraph
\* and its setGraphData, and a setGraphData after which no handler is under
\* way gives the snapshot of the stores as they are then.
C20_SnapshotOfOneMoment ==
    [][\A t \in Handlers :
          Sets(t) =>
             /\ \E v \in views[t] :
                   appGraph' = GraphOf(getAll(v[1]), getAll(v[2]), getAll(v[3]))
             /\ (\A h \in Handlers : tasks'[h].pc = "idle") => appGraph' = Current']_vars

\* C23 as stated: a start that fails for want of a 2D context leaves nothing
\* behind: while the start is under way no step changes a held node (no
\* physics is applied), and once it has failed no resize listener is
\* attached and no frame callback is pending.
C23_FailedStartLeavesNothing ==
    [][/\ ctl = "starting" => nodes' = nodes
       /\ ctl' = "failed" => (~listener' /\ pending' = {})]_vars

\* the loop is between two ticks and the next one is within the bounds
TickDue ==
    /\ ctl = "running"
    /\ pc = "idle"
    /\ events < MaxEvents
    /\ InRange(nodes)

\* C21: while the controller is running, a tick that completes calls
\* requestAnimationFrame once and records the handle, a new one; between
\* ticks exactly one frame callback is pending and animationRef is its
\* handle, and inside a tick none is; and, absent teardown, the pending
\* callback is run and the tick it starts completes, again and again (as
\* far as the bounds follow the loop).
C21_SinglePendingFrame ==
    /\ [](ctl = "running" =>
             IF pc = "idle" THEN pending = {animationRef} /\ animationRef = calls
                            ELSE pending = {})
    /\ [][(ctl = "running" /\ op' = "render") =>
             /\ calls' = calls + 1
             /\ animationRef' = calls'
             /\ animationRef' \notin pending
             /\ pending' = {animationRef'}]_vars
    /\ (TickDue ~> (op = "frame" \/ ctl = "cancelled" \/ events = MaxEvents))
    /\ ((ctl = "running" /\ pc = "start") ~> (ctl = "running" /\ op = "render"))

\* the third tick since the mount has completed and its successor is pending
C21_Witness ==
    /\ ctl = "running"
    /\ op = "render"
    /\ calls = 3
    /\ pending = {3}
    /\ Len(nodes) > 0

\* an attempt that succeeds, in the words of C22: HTTP ok, non-empty text,
\* parseable JSON when a schema is given
Succeeds(resp, jsonSchema) ==
    /\ resp.fetched /\ resp.ok
    /\ resp.text # Null /\ resp.text # ""
    /\ jsonSchema => JSONParse(resp.text) # Null

\* the waits of C22, in milliseconds
StatedWaits == << 1000, 2000, 4000, 8000 >>

\* C22: a call makes at most 5 attempts; every attempt before the last one
\* made has failed and was followed by its wait, the waits being 1 s, 2 s,
\* 4 s and 8 s in turn; a call that has returned returns the result of its
\* last attempt, which succeeded (the text, parsed when a schema is given);
\* a call that has thrown has made five attempts, all failed, throws the
\* error of the fifth and has waited four times; and a call that has
\* returned or thrown does nothing more.
C22_RetryProtocol ==
    /\ [](LET made == Len(gemini.log)
              last == gemini.log[made]
          IN /\ made <= 5
             /\ \A k \in 1 .. (made - 1) : ~Succeeds(gemini.log[k], gemini.jsonSchema)
             /\ gemini.waits =
                   SubSeq(StatedWaits, 1,
                          IF gemini.pc \in {"idle", "fetch"} THEN made ELSE made - 1)
             /\ gemini.pc = "wait" => ~Succeeds(last, gemini.jsonSchema)
             /\ gemini.pc = "returned" =>
                   /\ Succeeds(last, gemini.jsonSchema)
                   /\ gemini.result =
                         Returns(IF gemini.jsonSchema THEN JSONParse(last.text)
                                                      ELSE last.text, made - 1)
             /\ gemini.pc = "thrown" =>
                   /\ made = 5
                   /\ ~Succeeds(last, gemini.jsonSchema)
                   /\ gemini.result.threw
                   /\ gemini.result = Try(last, gemini.jsonSchema, 4))
    /\ [][gemini.pc \in {"returned", "thrown"} => gemini' = gemini]_vars

\* a call with a schema has returned the parsed text of its fifth attempt,
\* after four failures of different kinds and the four waits
C22_Witness ==
    /\ gemini.pc = "returned"
    /\ gemini.jsonSchema
    /\ Len(gemini.log) = 5
    /\ gemini.result.value = JSONParse(JsonText)
    /\ gemini.waits = StatedWaits
    /\ ~gemini.log[1].fetched
    /\ ~gemini.log[2].ok
    /\ gemini.log[3].text = ""
    /\ gemini.log[4].text = "plain"

====
